---- MODULE Spec2Model ----
(***************************************************************************)
(* State-machine model of ViewerApplication::run (ViewerApplication.cpp):  *)
(* one-time creation of the device resources from the glTF document, the   *)
(* material binder (bindMaterial), the recursive scene traversal           *)
(* (drawScene / drawNode), the render-to-image path and the interactive    *)
(* loop.                                                                   *)
(*                                                                         *)
(* Abstractions.  Floating-point 4x4 matrices are exact 2x2 integer        *)
(* matrices of determinant +1 or -1 (row-major 4-tuples), so that product, *)
(* inverse and transpose are computed and do not commute.  Factors are     *)
(* integers in tenths (10 is 1.0).  Indices are 0-based as in the code;    *)
(* At(s, i) reads element i of a vector.  Names made by glGen* are handed  *)
(* out in increasing order from 1 in each name space.                      *)
(***************************************************************************)
EXTENDS Integers, Sequences, FiniteSets, TLC

\* Number of iterations of the interactive loop that are explored.
MaxFrames == 2

GL_LINEAR == 9729
GL_LINEAR_MIPMAP_LINEAR == 9987
GL_NEAREST_MIPMAP_NEAREST == 9984
GL_LINEAR_MIPMAP_NEAREST == 9985
GL_NEAREST_MIPMAP_LINEAR == 9986
GL_REPEAT == 10497
GL_ARRAY_BUFFER == 34962
GL_ELEMENT_ARRAY_BUFFER == 34963

At(s, i) == s[i + 1]

Range(s) == {s[i] : i \in 1..Len(s)}

(***************************************************************************)
(* Matrices (glm::mat4 reduced to 2x2 integer matrices).                   *)
(***************************************************************************)
Identity == <<1, 0, 0, 1>>

ZeroMat == <<0, 0, 0, 0>>

Mul(X, Y) ==
  << X[1] * Y[1] + X[2] * Y[3], X[1] * Y[2] + X[2] * Y[4],
     X[3] * Y[1] + X[4] * Y[3], X[3] * Y[2] + X[4] * Y[4] >>

Det(X) == X[1] * X[4] - X[2] * X[3]

\* adjugate divided by the determinant
Inverse(X) ==
  << X[4] \div Det(X), (0 - X[2]) \div Det(X),
     (0 - X[3]) \div Det(X), X[1] \div Det(X) >>

Transpose(X) == <<X[1], X[3], X[2], X[4]>>

ShearX == <<1, 1, 0, 1>>

Swap == <<0, 1, 1, 0>>

ShearY == <<1, 0, 1, 1>>

\* view matrices the camera can yield, and the projection matrix
Views == {Identity, ShearY}

ProjMatrix == <<2, 0, 1, 1>>

(***************************************************************************)
(* glTF documents (tinygltf::Model), the input of run().                   *)
(***************************************************************************)
White == <<10, 10, 10, 10>>

Tint == <<2, 3, 4, 10>>

Black == <<0, 0, 0>>

Glow == <<10, 5, 0>>

Texture(source, sampler) == [source |-> source, sampler |-> sampler]

Sampler(minFilter, magFilter) ==
  [minFilter |-> minFilter, magFilter |-> magFilter,
   wrapS |-> GL_REPEAT, wrapT |-> GL_REPEAT, wrapR |-> GL_REPEAT]

\* images (their number), textures and samplers of a document
TextureConfigs ==
  { [images |-> 0, textures |-> <<>>, samplers |-> <<>>],
    [images |-> 1, textures |-> <<Texture(0, -1)>>, samplers |-> <<>>],
    [images |-> 2, textures |-> <<Texture(1, 0), Texture(0, -1)>>,
     samplers |-> <<Sampler(GL_LINEAR_MIPMAP_LINEAR, -1)>>],
    [images |-> 2, textures |-> <<Texture(1, -1)>>, samplers |-> <<>>],
    [images |-> 1, textures |-> <<Texture(0, -1), Texture(-1, -1)>>,
     samplers |-> <<>>] }

Material(bcf, bct, mf, rf, mrt, ef, et, os, ot) ==
  [baseColorFactor |-> bcf, baseColorTexture |-> bct,
   metallicFactor |-> mf, roughnessFactor |-> rf,
   metallicRoughnessTexture |-> mrt,
   emissiveFactor |-> ef, emissiveTexture |-> et,
   occlusionStrength |-> os, occlusionTexture |-> ot]

\* a material that sets its base color factor only (the other members hold
\* what the loader leaves in an unset member)
OnlyBaseColor == Material(Tint, -1, 10, 10, -1, Black, -1, 10, -1)

FullyTextured(t) == Material(Tint, t, 5, 3, t, Glow, t, 5, t)

PartlyTextured(t) == Material(White, t, 10, 3, -1, Black, -1, 10, t)

EmissiveOnly(t) == Material(Tint, -1, 5, 10, -1, Glow, t, 10, -1)

MaterialKinds(nt) ==
  {OnlyBaseColor}
    \cup {FullyTextured(t) : t \in 0..(nt - 1)}
    \cup {PartlyTextured(t) : t \in 0..(nt - 1)}
    \cup {EmissiveOnly(t) : t \in {nt - 1} \cap (0..(nt - 1))}

MaterialLists(nt) ==
  {<<>>}
    \cup {<<k>> : k \in MaterialKinds(nt)}
    \cup {<<OnlyBaseColor, k>> : k \in MaterialKinds(nt) \ {OnlyBaseColor}}

Accessor(count, componentType, bufferView, byteOffset) ==
  [count |-> count, componentType |-> componentType,
   bufferView |-> bufferView, byteOffset |-> byteOffset, type |-> 3]

BufferView(buffer, byteOffset, byteStride, target) ==
  [buffer |-> buffer, byteOffset |-> byteOffset,
   byteStride |-> byteStride, target |-> target]

Primitive(material, indices, attributes) ==
  [material |-> material, indices |-> indices,
   attributes |-> attributes, mode |-> "GL_TRIANGLES"]

Node(mesh, children, local) ==
  [mesh |-> mesh, children |-> children, local |-> local]

\* accessors 0,1: 3 vertices; 2: 6 indices; 3: 4 vertices; 4: texcoords in a
\* buffer view with no target
Accessors ==
  << Accessor(3, "GL_FLOAT", 0, 0), Accessor(3, "GL_FLOAT", 0, 36),
     Accessor(6, "GL_UNSIGNED_SHORT", 1, 0), Accessor(4, "GL_FLOAT", 0, 72),
     Accessor(3, "GL_FLOAT", 2, 0) >>

BufferViews ==
  << BufferView(0, 0, 12, GL_ARRAY_BUFFER), BufferView(1, 8, 0, GL_ELEMENT_ARRAY_BUFFER),
     BufferView(0, 120, 8, 0) >>

\* geometry and scene graph of a document whose materials are 0..nm-1
\* (last is the last material index, first the first, -1 when there is none)
SceneShapes(nm) ==
  LET last == nm - 1
      first == IF nm > 0 THEN 0 ELSE -1
  IN
  { \* no mesh, no node, an empty default scene
    [buffers |-> 0, accessors |-> <<>>, bufferViews |-> <<>>,
     meshes |-> <<>>, nodes |-> <<>>, scenes |-> <<<<>>>>, defaultScene |-> 0],
    \* one identity root, one mesh of one primitive: 3 vertices, no index
    \* buffer, no material
    [buffers |-> 1, accessors |-> Accessors, bufferViews |-> BufferViews,
     meshes |-> << <<Primitive(-1, -1, [POSITION |-> 0])>> >>,
     nodes |-> <<Node(0, <<>>, Identity)>>,
     scenes |-> << <<0>> >>, defaultScene |-> 0],
    \* the same geometry with the one material, and no default scene
    [buffers |-> 1, accessors |-> Accessors, bufferViews |-> BufferViews,
     meshes |-> << <<Primitive(last, -1, [POSITION |-> 0])>> >>,
     nodes |-> <<Node(0, <<>>, ShearX)>>,
     scenes |-> << <<0>> >>, defaultScene |-> -1],
    \* two roots; root 0 has two children; node 4 is in no scene
    [buffers |-> 2, accessors |-> Accessors, bufferViews |-> BufferViews,
     meshes |->
       << << Primitive(last, 2, [POSITION |-> 0, NORMAL |-> 1]),
             Primitive(-1, -1, [POSITION |-> 0, NORMAL |-> 3]) >>,
          << Primitive(first, -1, [POSITION |-> 1, TEXCOORD_0 |-> 0]) >> >>,
     nodes |->
       << Node(-1, <<1, 2>>, ShearX), Node(0, <<>>, Swap),
          Node(1, <<>>, ShearX), Node(0, <<>>, Swap), Node(1, <<>>, Swap) >>,
     scenes |-> << <<0, 3>> >>, defaultScene |-> 0],
    \* a chain of three mesh-bearing nodes
    [buffers |-> 2, accessors |-> Accessors, bufferViews |-> BufferViews,
     meshes |->
       << << Primitive(first, -1, [TEXCOORD_0 |-> 4, POSITION |-> 0]) >>,
          << Primitive(last, 2, [POSITION |-> 0]),
             Primitive(last, -1, [NORMAL |-> 1]) >> >>,
     nodes |->
       << Node(0, <<1>>, Swap), Node(1, <<2>>, ShearX),
          Node(0, <<>>, ShearY) >>,
     scenes |-> << <<0>> >>, defaultScene |-> 0] }

Document(tc, mats, shape) ==
  [images |-> tc.images, textures |-> tc.textures, samplers |-> tc.samplers,
   materials |-> mats, buffers |-> shape.buffers,
   accessors |-> shape.accessors, bufferViews |-> shape.bufferViews,
   meshes |-> shape.meshes, nodes |-> shape.nodes, scenes |-> shape.scenes,
   defaultScene |-> shape.defaultScene]

Documents ==
  UNION { UNION { {Document(tc, mats, shape) : shape \in SceneShapes(Len(mats))}
                  : mats \in MaterialLists(Len(tc.textures)) }
          : tc \in TextureConfigs }

(***************************************************************************)
(* State.                                                                  *)
(***************************************************************************)
VARIABLES
  model,              \* the glTF file's content (tinygltf::Model once loaded)
  shader,             \* the uniforms the shader files declare
  m_OutputPath,       \* TRUE when an output path is set
  pc,                 \* position in run()
  fault,              \* out-of-range accesses and failed assertions so far
  loc,                \* uniform locations (glGetUniformLocation)
  textureObjects, whiteTexture, bufferObjects, vertexArrayObjects, meshToVA,
  device,             \* objects living on the device, by name space, and
                      \* the names deleted
  gl,                 \* context state: uniform values, texture units, VAO
  view,               \* view matrix of the camera controller's camera
  cameraType,         \* 0 trackball, 1 first person
  light,              \* lightFromCamera, applyOcclusion, lightDirection,
                      \* lightIntensity
  stack,              \* active drawNode calls, innermost last
  rootIdx,            \* position in the default scene's node list
  drawLog,            \* draw calls issued by the current drawScene
  drawSceneCalls,     \* calls of drawScene so far
  lastMaterial,       \* argument of the last bindMaterial call, -2 before any
  frame,              \* loop iterations started
  shouldClose,        \* the window's close flag
  image               \* render-to-image: pixels and file

vars ==
  << model, shader, m_OutputPath, pc, fault, loc, textureObjects, whiteTexture,
     bufferObjects, vertexArrayObjects, meshToVA, device, gl, view, cameraType,
     light, stack, rootIdx, drawLog, drawSceneCalls, lastMaterial, frame,
     shouldClose, image >>

UniformNames ==
  << "uModelViewProjMatrix", "uModelViewMatrix", "uNormalMatrix",
     "uLightDirection", "uLightIntensity", "uBaseColorTexture",
     "uBaseColorFactor", "uMetallicRoughnessTexture", "uMetallicFactor",
     "uRoughnessFactor", "uEmissiveTexture", "uEmissiveFactor",
     "uOcclusionTexture", "uOcclusionStrength", "uApplyOcclusion" >>

AllUniforms == Range(UniformNames)

\* shader programs: the full uniform set, and a program that leaves some out
Shaders ==
  { AllUniforms,
    AllUniforms \ {"uBaseColorTexture", "uEmissiveTexture",
                   "uOcclusionStrength"} }

\* glGetUniformLocation: -1 for a name that is no active uniform
GetUniformLocation(program, name) ==
  IF name \in program
  THEN (CHOOSE i \in 1..Len(UniformNames) : UniformNames[i] = name) - 1
  ELSE -1

\* uniform values of a freshly linked program
InitialUniforms ==
  [uModelViewProjMatrix |-> ZeroMat, uModelViewMatrix |-> ZeroMat,
   uNormalMatrix |-> ZeroMat, uLightDirection |-> <<0, 0>>,
   uLightIntensity |-> <<0, 0, 0>>, uBaseColorTexture |-> 0,
   uBaseColorFactor |-> <<0, 0, 0, 0>>, uMetallicRoughnessTexture |-> 0,
   uMetallicFactor |-> 0, uRoughnessFactor |-> 0, uEmissiveTexture |-> 0,
   uEmissiveFactor |-> <<0, 0, 0>>, uOcclusionTexture |-> 0,
   uOcclusionStrength |-> 0, uApplyOcclusion |-> FALSE]

\* deleted: the names handed to glDeleteTextures, glDeleteBuffers and
\* glDeleteVertexArrays, in the order of the calls; error: the error flag
\* of the context (glGetError), which run() never reads
NoDevice ==
  [textures |-> <<>>, buffers |-> <<>>, vaos |-> <<>>, deleted |-> <<>>,
   error |-> "GL_NO_ERROR"]

\* glTexImage2D and glBufferStorage return nothing: a failed allocation of
\* the data store sets the error flag and the caller goes on
DataStore(dev, failed) ==
  [dev EXCEPT !.error = IF failed THEN "GL_OUT_OF_MEMORY" ELSE @]

NoImage == [pixels |-> "none", files |-> 0]

Init ==
  /\ model \in Documents
  /\ shader \in Shaders
  /\ m_OutputPath \in BOOLEAN
  /\ pc = "start"
  /\ fault = {}
  /\ loc = [n \in AllUniforms |-> -1]
  /\ textureObjects = <<>>
  /\ whiteTexture = 0
  /\ bufferObjects = <<>>
  /\ vertexArrayObjects = <<>>
  /\ meshToVA = <<>>
  /\ device = NoDevice
  /\ gl = [uni |-> InitialUniforms, unit |-> <<0, 0, 0, 0>>, active |-> 0,
           vao |-> 0]
  /\ view = Identity
  /\ cameraType = 0
  /\ light = [lightFromCamera |-> FALSE, applyOcclusion |-> TRUE,
              lightDirection |-> <<1, 1>>, lightIntensity |-> <<1, 1, 1>>]
  /\ stack = <<>>
  /\ rootIdx = 0
  /\ drawLog = <<>>
  /\ drawSceneCalls = 0
  /\ lastMaterial = -2
  /\ frame = 0
  /\ shouldClose = FALSE
  /\ image = NoImage

(***************************************************************************)
(* Setup: run() up to the definition of the lambdas.                       *)
(***************************************************************************)
\* compileProgram and the glGetUniformLocation calls
CompileProgram ==
  /\ pc = "start"
  /\ loc' = [n \in AllUniforms |-> GetUniformLocation(shader, n)]
  /\ pc' = "compiled"
  /\ UNCHANGED << model, shader, m_OutputPath, fault, textureObjects,
                  whiteTexture, bufferObjects, vertexArrayObjects, meshToVA,
                  device, gl, view, cameraType, light, stack, rootIdx, drawLog,
                  lastMaterial, frame, shouldClose, image, drawSceneCalls >>

\* loadGltfFile, and the throw of run() when it fails
LoadGltfFile ==
  /\ pc = "compiled"
  /\ \E result \in BOOLEAN : pc' = IF result THEN "loaded" ELSE "thrown"
  /\ UNCHANGED << model, shader, m_OutputPath, fault, loc, textureObjects,
                  whiteTexture, bufferObjects, vertexArrayObjects, meshToVA,
                  device, gl, view, cameraType, light, stack, rootIdx, drawLog,
                  lastMaterial, frame, shouldClose, image, drawSceneCalls >>

DefaultSampler == Sampler(GL_LINEAR, GL_LINEAR)

MipmapFilters ==
  { GL_NEAREST_MIPMAP_NEAREST, GL_NEAREST_MIPMAP_LINEAR,
    GL_LINEAR_MIPMAP_NEAREST, GL_LINEAR_MIPMAP_LINEAR }

\* the device texture made from one texture of the document
TextureObject(texture) ==
  LET sampler == IF texture.sampler >= 0
                 THEN At(model.samplers, texture.sampler)
                 ELSE DefaultSampler
  IN [image |-> texture.source,
      minFilter |-> IF sampler.minFilter # -1 THEN sampler.minFilter
                    ELSE GL_LINEAR,
      magFilter |-> IF sampler.magFilter # -1 THEN sampler.magFilter
                    ELSE GL_LINEAR,
      wrapS |-> sampler.wrapS, wrapT |-> sampler.wrapT, wrapR |-> sampler.wrapR,
      mipmaps |-> sampler.minFilter \in MipmapFilters]

\* accesses of createTextureObjects that are out of range: element 0 of an
\* empty textureObjects, model.images at a negative source
TextureFaults ==
  (IF Len(model.textures) = 0 THEN {"textureObjects[0]"} ELSE {})
    \cup (IF \E i \in 1..Len(model.textures) : model.textures[i].source < 0
          THEN {"model.images[texture.source]"} ELSE {})

\* createTextureObjects.  Where it goes out of range the process either
\* stops (a build that checks subscripts or assertions) or goes on (a build
\* that does not): both are outcomes.
CreateTextureObjects ==
  /\ pc = "loaded"
  /\ fault' = fault \cup TextureFaults
  /\ \E stops \in (IF TextureFaults = {} THEN {FALSE} ELSE BOOLEAN) :
       IF stops
       THEN /\ pc' = "aborted"
            /\ UNCHANGED << textureObjects, device >>
       ELSE /\ pc' = "texturesCreated"
            /\ textureObjects' = [i \in 1..Len(model.textures) |-> i]
            /\ \E failed \in (IF model.textures = <<>> THEN {FALSE}
                              ELSE BOOLEAN) :
                 device' = DataStore(
                   [device EXCEPT !.textures =
                      [i \in 1..Len(model.textures) |->
                         TextureObject(model.textures[i])]], failed)
  /\ UNCHANGED << model, shader, m_OutputPath, loc, whiteTexture,
                  bufferObjects, vertexArrayObjects, meshToVA, gl, view,
                  cameraType, light, stack, rootIdx, drawLog, lastMaterial,
                  frame, shouldClose, image, drawSceneCalls >>

\* the 1x1 white texture (image -2)
CreateWhiteTexture ==
  /\ pc = "texturesCreated"
  /\ whiteTexture' = Len(device.textures) + 1
  /\ \E failed \in BOOLEAN :
       device' = DataStore(
         [device EXCEPT !.textures = Append(@,
            [image |-> -2, minFilter |-> GL_LINEAR, magFilter |-> GL_LINEAR,
             wrapS |-> GL_REPEAT, wrapT |-> GL_REPEAT, wrapR |-> GL_REPEAT,
             mipmaps |-> FALSE])], failed)
  /\ pc' = "whiteCreated"
  /\ UNCHANGED << model, shader, m_OutputPath, fault, loc, textureObjects,
                  bufferObjects, vertexArrayObjects, meshToVA, gl, view,
                  cameraType, light, stack, rootIdx, drawLog, lastMaterial,
                  frame, shouldClose, image, drawSceneCalls >>

\* createBufferObjects
CreateBufferObjects ==
  /\ pc = "whiteCreated"
  /\ bufferObjects' = [i \in 1..model.buffers |-> i]
  /\ \E failed \in (IF model.buffers = 0 THEN {FALSE} ELSE BOOLEAN) :
       device' = DataStore(
         [device EXCEPT !.buffers =
            [i \in 1..model.buffers |-> [data |-> i - 1]]], failed)
  /\ pc' = "buffersCreated"
  /\ UNCHANGED << model, shader, m_OutputPath, fault, loc, textureObjects,
                  whiteTexture, vertexArrayObjects, meshToVA, gl, view,
                  cameraType, light, stack, rootIdx, drawLog, lastMaterial,
                  frame, shouldClose, image, drawSceneCalls >>

AttributeNames == <<"NORMAL", "POSITION", "TEXCOORD_0">>

\* one vertex attribute of a VAO: enabled and bound when the primitive has it
VertexAttrib(primitive, name) ==
  IF name \in DOMAIN primitive.attributes
  THEN LET accessor == At(model.accessors, primitive.attributes[name])
           bufferView == At(model.bufferViews, accessor.bufferView)
       IN [enabled |-> TRUE,
           buffer |-> At(bufferObjects, bufferView.buffer),
           type |-> accessor.type, componentType |-> accessor.componentType,
           stride |-> bufferView.byteStride,
           offset |-> accessor.byteOffset + bufferView.byteOffset]
  ELSE [enabled |-> FALSE, buffer |-> 0, type |-> 0, componentType |-> "",
        stride |-> 0, offset |-> 0]

\* the element array buffer of a VAO, 0 when the primitive has no indices
ElementBuffer(primitive) ==
  IF primitive.indices >= 0
  THEN LET accessor == At(model.accessors, primitive.indices)
           bufferView == At(model.bufferViews, accessor.bufferView)
       IN At(bufferObjects, bufferView.buffer)
  ELSE 0

VertexArrayObject(primitive) ==
  [POSITION |-> VertexAttrib(primitive, "POSITION"),
   NORMAL |-> VertexAttrib(primitive, "NORMAL"),
   TEXCOORD_0 |-> VertexAttrib(primitive, "TEXCOORD_0"),
   elements |-> ElementBuffer(primitive)]

\* a begin that is the index of the mesh
VaoBeginByMesh(i) == i

\* begin of the range of mesh i (0-based): size of the VAO vector when the
\* loop reaches it
RECURSIVE VaoBegin(_)
VaoBegin(i) ==
  IF i = 0 THEN 0 ELSE VaoBegin(i - 1) + Len(At(model.meshes, i - 1))

VaoRange(i) == [begin |-> VaoBegin(i), count |-> Len(At(model.meshes, i))]

\* the VAOs built by the loop over meshes 0..i-1, in the order of creation
RECURSIVE VaoContents(_)
VaoContents(i) ==
  IF i = 0 THEN <<>>
  ELSE VaoContents(i - 1) \o
         [p \in 1..Len(At(model.meshes, i - 1)) |->
            VertexArrayObject(At(model.meshes, i - 1)[p])]

\* assert(GL_ARRAY_BUFFER == bufferView.target) of the TEXCOORD_0 block
TargetFaults ==
  IF \E m \in 1..Len(model.meshes) : \E p \in 1..Len(model.meshes[m]) :
       LET attributes == model.meshes[m][p].attributes
       IN /\ "TEXCOORD_0" \in DOMAIN attributes
          /\ At(model.bufferViews,
                At(model.accessors, attributes["TEXCOORD_0"]).bufferView).target
               # GL_ARRAY_BUFFER
  THEN {"assert(GL_ARRAY_BUFFER == bufferView.target)"} ELSE {}

\* createVertexArrayObjects; the false assertion stops a build with
\* assertions and is skipped by one without
CreateVertexArrayObjects ==
  /\ pc = "buffersCreated"
  /\ \E stops \in (IF TargetFaults = {} THEN {FALSE} ELSE BOOLEAN) :
       IF stops
       THEN /\ pc' = "aborted"
            /\ fault' = fault \cup TargetFaults
            /\ UNCHANGED << vertexArrayObjects, meshToVA, device, gl >>
       ELSE /\ pc' = "vaosCreated"
            /\ fault' = fault
            /\ meshToVA' = [i \in 1..Len(model.meshes) |-> VaoRange(i - 1)]
            /\ vertexArrayObjects' =
                 [i \in 1..Len(VaoContents(Len(model.meshes))) |-> i]
            /\ device' = [device EXCEPT !.vaos =
                            VaoContents(Len(model.meshes))]
            /\ gl' = [gl EXCEPT !.vao =
                        IF VaoContents(Len(model.meshes)) = <<>> THEN @
                        ELSE Len(VaoContents(Len(model.meshes)))]
  /\ UNCHANGED << model, shader, m_OutputPath, loc, textureObjects,
                  whiteTexture, bufferObjects, view, cameraType, light, stack,
                  rootIdx, drawLog, lastMaterial, frame, shouldClose, image,
                  drawSceneCalls >>

\* scene bounds, projection matrix, camera controller and its first camera
\* (the user's, or one derived from the bounds); depth test; program in use
SetupCamera ==
  /\ pc = "vaosCreated"
  /\ view' \in Views
  /\ cameraType' = 0
  /\ pc' = "ready"
  /\ UNCHANGED << model, shader, m_OutputPath, fault, loc, textureObjects,
                  whiteTexture, bufferObjects, vertexArrayObjects, meshToVA,
                  device, gl, light, stack, rootIdx, drawLog, lastMaterial,
                  frame, shouldClose, image, drawSceneCalls >>

(***************************************************************************)
(* Device calls on the context state.                                      *)
(***************************************************************************)
\* glUniform*: a location of -1 is ignored by the device
Uniform(g, name, value) ==
  IF loc[name] >= 0 THEN [g EXCEPT !.uni[name] = value] ELSE g

ActiveTexture(g, slot) == [g EXCEPT !.active = slot]

\* glBindTexture(GL_TEXTURE_2D, ...) on the active unit
BindTexture(g, textureObject) == [g EXCEPT !.unit[g.active + 1] = textureObject]

BindVertexArray(g, vao) == [g EXCEPT !.vao = vao]

(***************************************************************************)
(* bindMaterial.                                                           *)
(***************************************************************************)
\* values an out-of-range read of textureObjects can return
GarbageHandles == {0, 7}

\* textureObjects[i]; past the end of the vector the read returns garbage
ReadTextureObject(i, garbage) ==
  IF i < Len(textureObjects) THEN At(textureObjects, i) ELSE garbage

\* ResolveTexture with texture id 0 for a texture that has no source
ResolveTextureUnboundSourceless(index, initial, garbage) ==
  IF index >= 0
  THEN LET texture == At(model.textures, index)
       IN IF texture.source >= 0
          THEN ReadTextureObject(texture.source, garbage)
          ELSE 0
  ELSE initial

\* the texture object for a texture reference of a material: the initial
\* value unless the reference and the texture's source are both >= 0
ResolveTexture(index, initial, garbage) ==
  IF index >= 0
  THEN LET texture == At(model.textures, index)
       IN IF texture.source >= 0
          THEN ReadTextureObject(texture.source, garbage)
          ELSE initial
  ELSE initial

\* base color factor and texture of a material
BindBaseColor(g, material, garbage) ==
  LET g1 == IF loc["uBaseColorFactor"] >= 0
            THEN Uniform(g, "uBaseColorFactor", material.baseColorFactor)
            ELSE g
  IN IF loc["uBaseColorTexture"] >= 0
     THEN LET g2 == IF loc["uBaseColorFactor"] >= 0
                    THEN Uniform(g1, "uBaseColorFactor", White)
                    ELSE g1
              textureObject ==
                ResolveTexture(material.baseColorTexture, whiteTexture, garbage)
          IN Uniform(BindTexture(ActiveTexture(g2, 0), textureObject),
                     "uBaseColorTexture", 0)
     ELSE g1

\* metallic and roughness factors; the metallic-roughness texture object is
\* looked up and dropped
BindMetallicRoughness(g, material, garbage) ==
  LET g1 == IF loc["uMetallicFactor"] >= 0
            THEN Uniform(g, "uMetallicFactor", material.metallicFactor)
            ELSE g
  IN IF loc["uRoughnessFactor"] >= 0
     THEN Uniform(g1, "uRoughnessFactor", material.roughnessFactor)
     ELSE g1

\* BindEmissive that touches slot 2 only for a material with an emissive
\* texture
BindEmissiveWhenPresent(g, material, garbage) ==
  LET g1 == IF loc["uEmissiveFactor"] >= 0
            THEN Uniform(g, "uEmissiveFactor", material.emissiveFactor)
            ELSE g
  IN IF loc["uEmissiveTexture"] >= 0 /\ material.emissiveTexture >= 0
     THEN LET textureObject ==
                ResolveTexture(material.emissiveTexture, 0, garbage)
          IN Uniform(BindTexture(ActiveTexture(g1, 2), textureObject),
                     "uEmissiveTexture", 2)
     ELSE g1

\* emissive factor and texture of a material
BindEmissive(g, material, garbage) ==
  LET g1 == IF loc["uEmissiveFactor"] >= 0
            THEN Uniform(g, "uEmissiveFactor", material.emissiveFactor)
            ELSE g
  IN IF loc["uEmissiveTexture"] >= 0
     THEN LET textureObject ==
                ResolveTexture(material.emissiveTexture, 0, garbage)
          IN Uniform(BindTexture(ActiveTexture(g1, 2), textureObject),
                     "uEmissiveTexture", 2)
     ELSE g1

\* occlusion strength and texture of a material
BindOcclusion(g, material, garbage) ==
  LET g1 == IF loc["uOcclusionStrength"] >= 0
            THEN Uniform(g, "uOcclusionStrength", material.occlusionStrength)
            ELSE g
  IN IF loc["uOcclusionTexture"] >= 0
     THEN LET textureObject ==
                ResolveTexture(material.occlusionTexture, whiteTexture, garbage)
          IN Uniform(BindTexture(ActiveTexture(g1, 3), textureObject),
                     "uOcclusionTexture", 3)
     ELSE g1

\* BindNoMaterial that leaves the emissive texture of slot 2 bound
BindNoMaterialKeepsEmissive(g) ==
  LET g1 == IF loc["uBaseColorFactor"] >= 0
            THEN Uniform(g, "uBaseColorFactor", White) ELSE g
      g2 == IF loc["uBaseColorTexture"] >= 0
            THEN Uniform(BindTexture(ActiveTexture(g1, 0), whiteTexture),
                         "uBaseColorTexture", 0)
            ELSE g1
      g3 == IF loc["uMetallicFactor"] >= 0
            THEN Uniform(g2, "uMetallicFactor", 10) ELSE g2
      g4 == IF loc["uRoughnessFactor"] >= 0
            THEN Uniform(g3, "uRoughnessFactor", 10) ELSE g3
      g5 == IF loc["uEmissiveFactor"] >= 0
            THEN Uniform(g4, "uEmissiveFactor", Black) ELSE g4
      g7 == IF loc["uOcclusionStrength"] >= 0
            THEN Uniform(g5, "uOcclusionStrength", 0) ELSE g5
  IN IF loc["uOcclusionTexture"] >= 0
     THEN Uniform(BindTexture(ActiveTexture(g7, 3), 0), "uOcclusionTexture", 3)
     ELSE g7

\* the branch of bindMaterial for "no material"
BindNoMaterial(g) ==
  LET g1 == IF loc["uBaseColorFactor"] >= 0
            THEN Uniform(g, "uBaseColorFactor", White) ELSE g
      g2 == IF loc["uBaseColorTexture"] >= 0
            THEN Uniform(BindTexture(ActiveTexture(g1, 0), whiteTexture),
                         "uBaseColorTexture", 0)
            ELSE g1
      g3 == IF loc["uMetallicFactor"] >= 0
            THEN Uniform(g2, "uMetallicFactor", 10) ELSE g2
      g4 == IF loc["uRoughnessFactor"] >= 0
            THEN Uniform(g3, "uRoughnessFactor", 10) ELSE g3
      g5 == IF loc["uEmissiveFactor"] >= 0
            THEN Uniform(g4, "uEmissiveFactor", Black) ELSE g4
      g6 == IF loc["uEmissiveTexture"] >= 0
            THEN Uniform(BindTexture(ActiveTexture(g5, 2), 0),
                         "uEmissiveTexture", 2)
            ELSE g5
      g7 == IF loc["uOcclusionStrength"] >= 0
            THEN Uniform(g6, "uOcclusionStrength", 0) ELSE g6
  IN IF loc["uOcclusionTexture"] >= 0
     THEN Uniform(BindTexture(ActiveTexture(g7, 3), 0), "uOcclusionTexture", 3)
     ELSE g7

\* context state after bindMaterial(materialIndex) from context state g
BindMaterial(g, materialIndex, garbage) ==
  IF materialIndex >= 0
  THEN LET material == At(model.materials, materialIndex)
       IN BindOcclusion(
            BindEmissive(
              BindMetallicRoughness(
                BindBaseColor(g, material, garbage), material, garbage),
              material, garbage),
            material, garbage)
  ELSE BindNoMaterial(g)

\* TRUE when a texture reference makes bindMaterial read textureObjects
\* past its end
ReadsPastEnd(index) ==
  /\ index >= 0
  /\ At(model.textures, index).source >= Len(textureObjects)

\* bindMaterial(materialIndex) reads textureObjects out of range
BindMaterialFaults(materialIndex) ==
  IF /\ materialIndex >= 0
     /\ LET material == At(model.materials, materialIndex)
        IN \/ loc["uBaseColorTexture"] >= 0
              /\ ReadsPastEnd(material.baseColorTexture)
           \/ loc["uMetallicRoughnessTexture"] >= 0
              /\ ReadsPastEnd(material.metallicRoughnessTexture)
           \/ loc["uEmissiveTexture"] >= 0
              /\ ReadsPastEnd(material.emissiveTexture)
           \/ loc["uOcclusionTexture"] >= 0
              /\ ReadsPastEnd(material.occlusionTexture)
  THEN {"textureObjects[texture.source]"} ELSE {}

(***************************************************************************)
(* drawScene and drawNode.  The recursion of drawNode is the stack of its  *)
(* active calls: [node, modelMatrix, prIdx, child], prIdx the next         *)
(* primitive of the node's mesh and child the next position in its child   *)
(* list.                                                                   *)
(***************************************************************************)
\* utils/gltf.hpp: the node's local matrix applied after the parent's
GetLocalToWorldMatrix(node, parentMatrix) == Mul(parentMatrix, node.local)

\* the light direction in view space (not normalised)
ViewSpace(viewMatrix, d) ==
  << viewMatrix[1] * d[1] + viewMatrix[2] * d[2],
     viewMatrix[3] * d[1] + viewMatrix[4] * d[2] >>

\* drawScene up to the definition of drawNode: the per-frame uniforms
FrameUniforms(g) ==
  LET g1 == IF light.lightFromCamera
            THEN Uniform(g, "uLightDirection", <<0, 1>>)
            ELSE Uniform(g, "uLightDirection",
                         ViewSpace(view, light.lightDirection))
      g2 == IF loc["uLightIntensity"] >= 0
            THEN Uniform(g1, "uLightIntensity", light.lightIntensity) ELSE g1
  IN IF loc["uApplyOcclusion"] >= 0
     THEN Uniform(g2, "uApplyOcclusion", light.applyOcclusion) ELSE g2

\* the start of a drawScene call
EnterDrawScene ==
  /\ gl' = FrameUniforms(gl)
  /\ stack' = <<>>
  /\ rootIdx' = 0
  /\ drawLog' = <<>>
  /\ drawSceneCalls' = drawSceneCalls + 1

Roots == IF model.defaultScene >= 0
         THEN At(model.scenes, model.defaultScene) ELSE <<>>

\* the three matrices sent for a mesh-bearing node
MatrixUniforms(g, modelMatrix) ==
  LET modelViewMatrix == Mul(view, modelMatrix)
      modelViewProjectionMatrix == Mul(ProjMatrix, modelViewMatrix)
      normalMatrix == Transpose(Inverse(modelViewMatrix))
  IN Uniform(
       Uniform(
         Uniform(g, "uModelViewMatrix", modelMatrix),
         "uModelViewProjMatrix", modelViewProjectionMatrix),
       "uNormalMatrix", normalMatrix)

NumPrimitives(nodeIdx) ==
  IF At(model.nodes, nodeIdx).mesh >= 0
  THEN Len(At(model.meshes, At(model.nodes, nodeIdx).mesh)) ELSE 0

\* the body of drawNode(nodeIdx, parentMatrix) up to its loop on primitives
EnterDrawNode(nodeIdx, parentMatrix, callers) ==
  LET node == At(model.nodes, nodeIdx)
      modelMatrix == GetLocalToWorldMatrix(node, parentMatrix)
  IN /\ stack' = Append(callers,
                   [node |-> nodeIdx, modelMatrix |-> modelMatrix,
                    prIdx |-> 0, child |-> 0])
     /\ gl' = IF node.mesh >= 0
              THEN LET g1 == MatrixUniforms(gl, modelMatrix)
                   IN IF NumPrimitives(nodeIdx) = 0
                      THEN BindVertexArray(g1, 0) ELSE g1
              ELSE gl

\* children drawn as if they were roots
ChildParentIdentity(top) == Identity

\* the matrix drawNode hands to the calls for its children
ChildParentMatrix(top) == top.modelMatrix

\* a call of drawNode: by drawScene for the next root, or by the innermost
\* drawNode, past its primitives, for its next child
DrawNodeCall ==
  /\ pc = "drawing"
  /\ IF stack = <<>>
     THEN /\ rootIdx < Len(Roots)
          /\ rootIdx' = rootIdx + 1
          /\ EnterDrawNode(At(Roots, rootIdx), Identity, <<>>)
     ELSE LET top == stack[Len(stack)]
              children == At(model.nodes, top.node).children
          IN /\ top.prIdx = NumPrimitives(top.node)
             /\ top.child < Len(children)
             /\ rootIdx' = rootIdx
             /\ EnterDrawNode(At(children, top.child), ChildParentMatrix(top),
                              [stack EXCEPT ![Len(stack)].child = @ + 1])
  /\ UNCHANGED << model, shader, m_OutputPath, pc, fault, loc, textureObjects,
                  whiteTexture, bufferObjects, vertexArrayObjects, meshToVA,
                  device, view, cameraType, light, drawLog, lastMaterial, frame,
                  shouldClose, image, drawSceneCalls >>

\* the accessor of the last entry of the attribute map
LastAttribute(primitive) ==
  LET last == CHOOSE i \in 1..Len(AttributeNames) :
                /\ AttributeNames[i] \in DOMAIN primitive.attributes
                /\ \A j \in (i + 1)..Len(AttributeNames) :
                     AttributeNames[j] \notin DOMAIN primitive.attributes
  IN primitive.attributes[AttributeNames[last]]

\* the accessor of the first entry of the attribute map (ordered by name)
FirstAttribute(primitive) ==
  LET first == CHOOSE i \in 1..Len(AttributeNames) :
                 /\ AttributeNames[i] \in DOMAIN primitive.attributes
                 /\ \A j \in 1..(i - 1) :
                      AttributeNames[j] \notin DOMAIN primitive.attributes
  IN primitive.attributes[AttributeNames[first]]

\* the draw call of a primitive
DrawCall(primitive) ==
  IF primitive.indices >= 0
  THEN LET accessor == At(model.accessors, primitive.indices)
           bufferView == At(model.bufferViews, accessor.bufferView)
       IN [call |-> "glDrawElements", mode |-> primitive.mode,
           count |-> accessor.count, type |-> accessor.componentType,
           offset |-> accessor.byteOffset + bufferView.byteOffset]
  ELSE LET accessor == At(model.accessors, FirstAttribute(primitive))
       IN [call |-> "glDrawArrays", mode |-> primitive.mode,
           count |-> accessor.count, type |-> "", offset |-> 0]

\* the VAO drawNode binds for primitive prIdx of a mesh
PrimitiveVao(mesh, prIdx) ==
  At(vertexArrayObjects, At(meshToVA, mesh).begin + prIdx)

\* one turn of drawNode's loop on primitives: bindMaterial, bind the VAO,
\* draw; past the last primitive the VAO is unbound.  A read of
\* textureObjects past its end stops a build that checks subscripts, and
\* yields garbage otherwise.
DrawPrimitive ==
  /\ pc = "drawing"
  /\ stack # <<>>
  /\ LET top == stack[Len(stack)]
         node == At(model.nodes, top.node)
     IN /\ top.prIdx < NumPrimitives(top.node)
        /\ LET primitive == At(At(model.meshes, node.mesh), top.prIdx)
               vao == PrimitiveVao(node.mesh, top.prIdx)
               faults == BindMaterialFaults(primitive.material)
           IN \E stops \in (IF faults = {} THEN {FALSE} ELSE BOOLEAN) :
              \E garbage \in (IF faults = {} THEN {0} ELSE GarbageHandles) :
                /\ fault' = fault \cup faults
                /\ lastMaterial' = primitive.material
                /\ IF stops
                   THEN /\ pc' = "abortedDrawing"
                        /\ UNCHANGED << gl, stack, drawLog >>
                   ELSE LET bound == BindVertexArray(
                                       BindMaterial(gl, primitive.material,
                                                    garbage), vao)
                        IN /\ pc' = pc
                           /\ drawLog' = Append(drawLog,
                                [node |-> top.node, prIdx |-> top.prIdx,
                                 draw |-> DrawCall(primitive),
                                 context |-> bound])
                           /\ stack' = [stack EXCEPT ![Len(stack)].prIdx = @ + 1]
                           /\ gl' = IF top.prIdx + 1 = NumPrimitives(top.node)
                                    THEN BindVertexArray(bound, 0)
                                    ELSE bound
  /\ UNCHANGED << model, shader, m_OutputPath, loc, textureObjects,
                  whiteTexture, bufferObjects, vertexArrayObjects, meshToVA,
                  device, view, cameraType, light, rootIdx, frame, shouldClose,
                  image, drawSceneCalls >>

\* the return of the innermost drawNode call
DrawNodeReturn ==
  /\ pc = "drawing"
  /\ stack # <<>>
  /\ LET top == stack[Len(stack)]
     IN /\ top.prIdx = NumPrimitives(top.node)
        /\ top.child = Len(At(model.nodes, top.node).children)
  /\ stack' = SubSeq(stack, 1, Len(stack) - 1)
  /\ UNCHANGED << model, shader, m_OutputPath, pc, fault, loc, textureObjects,
                  whiteTexture, bufferObjects, vertexArrayObjects, meshToVA,
                  device, gl, view, cameraType, light, rootIdx, drawLog,
                  lastMaterial, frame, shouldClose, image, drawSceneCalls >>

\* the return of drawScene: to renderToImage, or to the loop
DrawSceneReturn ==
  /\ pc = "drawing"
  /\ stack = <<>>
  /\ rootIdx = Len(Roots)
  /\ pc' = "drawn"
  /\ image' = IF m_OutputPath THEN [image EXCEPT !.pixels = "rendered"]
              ELSE image
  /\ UNCHANGED << model, shader, m_OutputPath, fault, loc, textureObjects,
                  whiteTexture, bufferObjects, vertexArrayObjects, meshToVA,
                  device, gl, view, cameraType, light, stack, rootIdx, drawLog,
                  lastMaterial, frame, shouldClose, drawSceneCalls >>

(***************************************************************************)
(* The two ends of run(): render to an image file, or the loop.            *)
(***************************************************************************)
\* renderToImage calls drawScene once, on the offscreen target
RenderToImage ==
  /\ pc = "ready"
  /\ m_OutputPath
  /\ EnterDrawScene
  /\ pc' = "drawing"
  /\ UNCHANGED << model, shader, m_OutputPath, fault, loc, textureObjects,
                  whiteTexture, bufferObjects, vertexArrayObjects, meshToVA,
                  device, view, cameraType, light, lastMaterial, frame,
                  shouldClose, image >>

\* a flip that leaves the rows of the image as they are
FlipImageYAxisOmitted ==
  /\ pc = "drawn"
  /\ m_OutputPath
  /\ pc' = "flipped"
  /\ UNCHANGED << model, shader, m_OutputPath, fault, loc, textureObjects,
                  whiteTexture, bufferObjects, vertexArrayObjects, meshToVA,
                  device, gl, view, cameraType, light, stack, rootIdx, drawLog,
                  lastMaterial, frame, shouldClose, image, drawSceneCalls >>

\* flipImageYAxis on the pixels read back
FlipImageYAxis ==
  /\ pc = "drawn"
  /\ m_OutputPath
  /\ image' = [image EXCEPT !.pixels = "flipped"]
  /\ pc' = "flipped"
  /\ UNCHANGED << model, shader, m_OutputPath, fault, loc, textureObjects,
                  whiteTexture, bufferObjects, vertexArrayObjects, meshToVA,
                  device, gl, view, cameraType, light, stack, rootIdx, drawLog,
                  lastMaterial, frame, shouldClose, drawSceneCalls >>

\* stbi_write_png and return 0
WritePng ==
  /\ pc = "flipped"
  /\ image' = [image EXCEPT !.files = @ + 1]
  /\ pc' = "returned"
  /\ UNCHANGED << model, shader, m_OutputPath, fault, loc, textureObjects,
                  whiteTexture, bufferObjects, vertexArrayObjects, meshToVA,
                  device, gl, view, cameraType, light, stack, rootIdx, drawLog,
                  lastMaterial, frame, shouldClose, drawSceneCalls >>

\* an iteration of the loop starts: drawScene(camera)
LoopIteration ==
  /\ pc = "ready"
  /\ ~m_OutputPath
  /\ ~shouldClose
  /\ frame < MaxFrames
  /\ frame' = frame + 1
  /\ EnterDrawScene
  /\ pc' = "drawing"
  /\ UNCHANGED << model, shader, m_OutputPath, fault, loc, textureObjects,
                  whiteTexture, bufferObjects, vertexArrayObjects, meshToVA,
                  device, view, cameraType, light, lastMaterial, shouldClose,
                  image >>

\* the parameter panel: at most one edit per frame
GuiFrame ==
  /\ pc = "drawn"
  /\ ~m_OutputPath
  /\ \E edit \in {"none", "camera", "sun", "intensity", "occlusion",
                  "fromCamera"} :
       /\ cameraType' = IF edit = "camera" THEN 1 - cameraType ELSE cameraType
       /\ light' =
            [lightFromCamera |-> IF edit = "fromCamera"
                                 THEN ~light.lightFromCamera
                                 ELSE light.lightFromCamera,
             applyOcclusion |-> IF edit = "occlusion"
                                THEN ~light.applyOcclusion
                                ELSE light.applyOcclusion,
             lightDirection |-> IF edit = "sun" THEN <<0, 1>>
                                ELSE light.lightDirection,
             lightIntensity |-> IF edit = "intensity" THEN <<2, 2, 2>>
                                ELSE light.lightIntensity]
  /\ pc' = "gui"
  /\ UNCHANGED << model, shader, m_OutputPath, fault, loc, textureObjects,
                  whiteTexture, bufferObjects, vertexArrayObjects, meshToVA,
                  device, gl, view, stack, rootIdx, drawLog, lastMaterial,
                  frame, shouldClose, image, drawSceneCalls >>

\* glfwPollEvents: keyCallback sets the close flag on the release of Escape
PollEvents ==
  /\ pc = "gui"
  /\ \E escape \in BOOLEAN : shouldClose' = (shouldClose \/ escape)
  /\ pc' = "polled"
  /\ UNCHANGED << model, shader, m_OutputPath, fault, loc, textureObjects,
                  whiteTexture, bufferObjects, vertexArrayObjects, meshToVA,
                  device, gl, view, cameraType, light, stack, rootIdx, drawLog,
                  lastMaterial, frame, image, drawSceneCalls >>

\* cameraController->update unless the panel has the focus, then swapBuffers
UpdateAndSwap ==
  /\ pc = "polled"
  /\ \E guiHasFocus \in BOOLEAN :
       IF guiHasFocus THEN view' = view ELSE view' \in Views
  /\ pc' = "ready"
  /\ UNCHANGED << model, shader, m_OutputPath, fault, loc, textureObjects,
                  whiteTexture, bufferObjects, vertexArrayObjects, meshToVA,
                  device, gl, cameraType, light, stack, rootIdx, drawLog,
                  lastMaterial, frame, shouldClose, image, drawSceneCalls >>

\* the loop ends when the window should close
LoopExit ==
  /\ pc = "ready"
  /\ ~m_OutputPath
  /\ shouldClose
  /\ pc' = "returned"
  /\ UNCHANGED << model, shader, m_OutputPath, fault, loc, textureObjects,
                  whiteTexture, bufferObjects, vertexArrayObjects, meshToVA,
                  device, gl, view, cameraType, light, stack, rootIdx, drawLog,
                  lastMaterial, frame, shouldClose, image, drawSceneCalls >>

Next ==
  \/ CompileProgram
  \/ LoadGltfFile
  \/ CreateTextureObjects
  \/ CreateWhiteTexture
  \/ CreateBufferObjects
  \/ CreateVertexArrayObjects
  \/ SetupCamera
  \/ RenderToImage
  \/ FlipImageYAxis
  \/ WritePng
  \/ LoopIteration
  \/ DrawNodeCall
  \/ DrawPrimitive
  \/ DrawNodeReturn
  \/ DrawSceneReturn
  \/ GuiFrame
  \/ PollEvents
  \/ UpdateAndSwap
  \/ LoopExit

Spec == Init /\ [][Next]_vars

(***************************************************************************)
(* Properties of bindMaterial.  A field of the binding table exists in the *)
(* program when its uniform has a location; Declared(name) says so.        *)
(***************************************************************************)
Declared(name) == loc[name] >= 0

\* the defaults table, on the fields the program declares
DefaultBindings(g) ==
  /\ Declared("uBaseColorFactor") => g.uni.uBaseColorFactor = White
  /\ Declared("uBaseColorTexture") =>
       g.unit[1] = whiteTexture /\ g.uni.uBaseColorTexture = 0
  /\ Declared("uMetallicFactor") => g.uni.uMetallicFactor = 10
  /\ Declared("uRoughnessFactor") => g.uni.uRoughnessFactor = 10
  /\ Declared("uEmissiveFactor") => g.uni.uEmissiveFactor = Black
  /\ Declared("uEmissiveTexture") =>
       g.unit[3] = 0 /\ g.uni.uEmissiveTexture = 2
  /\ Declared("uOcclusionStrength") => g.uni.uOcclusionStrength = 0
  /\ Declared("uOcclusionTexture") =>
       g.unit[4] = 0 /\ g.uni.uOcclusionTexture = 3

\* C1: after bindMaterial(-1), whatever calls came before, every field of
\* the binding table holds its default: base color factor (1,1,1,1), the
\* white texture at slot 0, metallic and roughness 1.0, emissive (0,0,0),
\* texture 0 at slot 2, occlusion strength 0.0, texture 0 at slot 3.
C1_NoMaterialBindsDefaults == lastMaterial = -1 => DefaultBindings(gl)

\* bindMaterial(-1) right after a draw with a textured, emissive material
C1_Witness ==
  /\ lastMaterial = -1
  /\ shader = AllUniforms
  /\ Len(drawLog) >= 2
  /\ drawLog[Len(drawLog) - 1].context.uni.uEmissiveFactor = Glow
  /\ drawLog[Len(drawLog) - 1].context.unit[3] # 0

\* a material that sets nothing but its base color factor
SetsOnlyBaseColor(material) ==
  /\ material.baseColorTexture < 0
  /\ material.metallicRoughnessTexture < 0
  /\ material.emissiveTexture < 0
  /\ material.occlusionTexture < 0
  /\ material.metallicFactor = 10
  /\ material.roughnessFactor = 10
  /\ material.emissiveFactor = Black
  /\ material.occlusionStrength = 10

\* C2: after bindMaterial(i) for a material that sets only its base color
\* factor, the base color factor uniform is the material's and every other
\* field is at its default of the table.
C2_BaseColorOnlyKeepsFactor ==
  (lastMaterial >= 0 /\ SetsOnlyBaseColor(At(model.materials, lastMaterial)))
    => /\ Declared("uBaseColorFactor") =>
            gl.uni.uBaseColorFactor =
              At(model.materials, lastMaterial).baseColorFactor
       /\ Declared("uBaseColorTexture") => gl.unit[1] = whiteTexture
       /\ Declared("uMetallicFactor") => gl.uni.uMetallicFactor = 10
       /\ Declared("uRoughnessFactor") => gl.uni.uRoughnessFactor = 10
       /\ Declared("uEmissiveFactor") => gl.uni.uEmissiveFactor = Black
       /\ Declared("uEmissiveTexture") => gl.unit[3] = 0
       /\ Declared("uOcclusionStrength") => gl.uni.uOcclusionStrength = 0
       /\ Declared("uOcclusionTexture") => gl.unit[4] = 0

\* the fields of the binding table the program declares (0 for the others)
Bindings(g) ==
  << IF Declared("uBaseColorFactor") THEN g.uni.uBaseColorFactor ELSE <<>>,
     IF Declared("uBaseColorTexture")
     THEN <<g.unit[1], g.uni.uBaseColorTexture>> ELSE <<>>,
     IF Declared("uMetallicFactor") THEN g.uni.uMetallicFactor ELSE 0,
     IF Declared("uRoughnessFactor") THEN g.uni.uRoughnessFactor ELSE 0,
     IF Declared("uEmissiveFactor") THEN g.uni.uEmissiveFactor ELSE <<>>,
     IF Declared("uEmissiveTexture")
     THEN <<g.unit[3], g.uni.uEmissiveTexture>> ELSE <<>>,
     IF Declared("uOcclusionStrength") THEN g.uni.uOcclusionStrength ELSE 0,
     IF Declared("uOcclusionTexture")
     THEN <<g.unit[4], g.uni.uOcclusionTexture>> ELSE <<>> >>

\* context states a call can start from: a fresh context, and one whose
\* every binding holds a value no material sets
StaleUniforms ==
  [InitialUniforms EXCEPT
     !.uBaseColorFactor = <<9, 9, 9, 9>>, !.uBaseColorTexture = 9,
     !.uMetallicFactor = 9, !.uRoughnessFactor = 9,
     !.uEmissiveFactor = <<9, 9, 9>>, !.uEmissiveTexture = 9,
     !.uOcclusionStrength = 9, !.uOcclusionTexture = 9]

PriorContexts ==
  { [uni |-> InitialUniforms, unit |-> <<0, 0, 0, 0>>, active |-> 0, vao |-> 0],
    [uni |-> StaleUniforms, unit |-> <<9, 9, 9, 9>>, active |-> 1, vao |-> 0] }

\* C3: every call of bindMaterial writes every field of the binding table:
\* the fields after a call are those the same call leaves from any other
\* context state, so they depend on the call's material and on nothing an
\* earlier call has set.
C3_EveryFieldWritten ==
  [][ Len(drawLog') = Len(drawLog) + 1 =>
        \A g0 \in PriorContexts : \E garbage \in GarbageHandles :
          Bindings(drawLog'[Len(drawLog')].context)
            = Bindings(BindMaterial(g0, lastMaterial', garbage)) ]_vars

\* two draws in a row whose bindings differ in every texture slot
C3_Witness ==
  /\ shader = AllUniforms
  /\ Len(drawLog) >= 2
  /\ LET a == drawLog[Len(drawLog) - 1].context
         b == drawLog[Len(drawLog)].context
     IN /\ a.unit[1] # b.unit[1]
        /\ a.unit[3] # b.unit[3]
        /\ a.unit[4] # b.unit[4]
        /\ a.uni.uMetallicFactor # b.uni.uMetallicFactor

\* a texture reference that resolves to no texture object
Absent(index) == index < 0 \/ At(model.textures, index).source < 0

\* the last bindMaterial call was for a material and has returned
MaterialBound == lastMaterial >= 0 /\ pc # "abortedDrawing"

TexturesAttempted == pc \notin {"start", "compiled", "thrown", "loaded"}

\* createVertexArrayObjects has returned
VaosCreated ==
  pc \notin {"start", "compiled", "thrown", "loaded", "texturesCreated",
             "whiteCreated", "buffersCreated", "aborted"}

RECURSIVE TotalPrimitives(_)
TotalPrimitives(meshes) ==
  IF meshes = <<>> THEN 0 ELSE Len(Head(meshes)) + TotalPrimitives(Tail(meshes))

\* C5: after setup the three tables have as many entries as the document
\* has buffers, textures and primitives; a document without meshes and
\* textures is set up without error or out-of-range access, and its tables
\* are empty.
C5_TablesMatchDocument ==
  /\ VaosCreated =>
       /\ Len(bufferObjects) = model.buffers
       /\ Len(textureObjects) = Len(model.textures)
       /\ Len(vertexArrayObjects) = TotalPrimitives(model.meshes)
  /\ (TexturesAttempted /\ Len(model.meshes) = 0 /\ Len(model.textures) = 0)
       => pc # "aborted" /\ fault = {}

\* the primitive a draw of the log is for
DrawnPrimitive(entry) ==
  At(At(model.meshes, At(model.nodes, entry.node).mesh), entry.prIdx)

\* C6: the ranges have the meshes' primitive counts, start at 0, follow one
\* another without gap or overlap and cover the VAO vector; primitive p of
\* mesh m is drawn with the VAO at begin_m + p, the one built for it.
C6_RangesPartitionVaos ==
  VaosCreated =>
    /\ Len(meshToVA) = Len(model.meshes)
    /\ \A m \in 1..Len(meshToVA) :
         /\ meshToVA[m].count = Len(model.meshes[m])
         /\ meshToVA[m].begin =
              IF m = 1 THEN 0 ELSE meshToVA[m - 1].begin + meshToVA[m - 1].count
    /\ Len(vertexArrayObjects) =
         IF meshToVA = <<>> THEN 0
         ELSE meshToVA[Len(meshToVA)].begin + meshToVA[Len(meshToVA)].count
    /\ \A m, n \in 1..Len(meshToVA) :
         m # n =>
           (meshToVA[m].begin..(meshToVA[m].begin + meshToVA[m].count - 1))
             \cap (meshToVA[n].begin..(meshToVA[n].begin + meshToVA[n].count - 1))
             = {}
    /\ \A i, j \in 1..Len(vertexArrayObjects) :
         i # j => vertexArrayObjects[i] # vertexArrayObjects[j]
    /\ \A i \in 1..Len(drawLog) :
         LET range == At(meshToVA, At(model.nodes, drawLog[i].node).mesh)
         IN /\ drawLog[i].prIdx < range.count
            /\ drawLog[i].context.vao =
                 At(vertexArrayObjects, range.begin + drawLog[i].prIdx)
            /\ device.vaos[drawLog[i].context.vao] =
                 VertexArrayObject(DrawnPrimitive(drawLog[i]))

\* a draw of a primitive of the second mesh, whose range starts at 2
C6_Witness ==
  /\ VaosCreated
  /\ Len(model.meshes) = 2
  /\ meshToVA[2].begin = 2
  /\ \E i \in 1..Len(drawLog) :
       /\ At(model.nodes, drawLog[i].node).mesh = 1
       /\ drawLog[i].context.vao = 3

(***************************************************************************)
(* Properties of the traversal.                                            *)
(***************************************************************************)
IsRoot(n) == n \in Range(Roots)

Parent(n) ==
  CHOOSE p \in 0..(Len(model.nodes) - 1) :
    n \in Range(At(model.nodes, p).children)

\* the local transforms composed along the path from the root to n
RECURSIVE PathTransform(_)
PathTransform(n) ==
  IF IsRoot(n) THEN At(model.nodes, n).local
  ELSE Mul(PathTransform(Parent(n)), At(model.nodes, n).local)

\* C7: the world transform of every node being visited is its parent's
\* world transform times its local transform, the parent transform of a
\* root being the identity; it is the composition of the local transforms
\* along the path from the root.
C7_WorldTransform ==
  \A k \in 1..Len(stack) :
    LET call == stack[k]
        parentMatrix == IF k = 1 THEN Identity ELSE stack[k - 1].modelMatrix
    IN /\ IF k = 1 THEN IsRoot(call.node)
          ELSE call.node \in Range(At(model.nodes, stack[k - 1].node).children)
       /\ call.modelMatrix = Mul(parentMatrix, At(model.nodes, call.node).local)
       /\ call.modelMatrix = PathTransform(call.node)

\* a grandchild whose world transform differs from its local transform and
\* from its parent's world transform
C7_Witness ==
  /\ Len(stack) = 3
  /\ stack[3].modelMatrix # At(model.nodes, stack[3].node).local
  /\ stack[3].modelMatrix # stack[2].modelMatrix
  /\ stack[2].modelMatrix # stack[1].modelMatrix

\* C8: the matrices sent for a mesh-bearing node are view * world for the
\* model-view uniform, proj * (view * world) for the model-view-projection
\* uniform and transpose(inverse(view * world)) for the normal matrix.
C8_TransformUniforms ==
  pc \in {"drawing", "drawn"} =>
    \A i \in 1..Len(drawLog) :
      LET modelView == Mul(view, PathTransform(drawLog[i].node))
          uni == drawLog[i].context.uni
      IN /\ uni.uModelViewMatrix = modelView
         /\ uni.uModelViewProjMatrix = Mul(ProjMatrix, modelView)
         /\ uni.uNormalMatrix = Transpose(Inverse(modelView))

\* the order of the keys of the attribute map
NameOrder ==
  { <<"NORMAL", "POSITION">>, <<"NORMAL", "TEXCOORD_0">>,
    <<"POSITION", "TEXCOORD_0">> }

SmallestName(attributes) ==
  CHOOSE a \in DOMAIN attributes :
    \A b \in (DOMAIN attributes) \ {a} : <<a, b>> \in NameOrder

\* C9: a primitive with an index accessor is drawn by an indexed draw of
\* that accessor's count and component type; one without is drawn by a
\* non-indexed draw of the count of the first entry of its attribute map,
\* which is the count its attributes share when they share one.
C9_DrawCounts ==
  \A i \in 1..Len(drawLog) :
    LET primitive == DrawnPrimitive(drawLog[i])
        draw == drawLog[i].draw
        Count(a) == At(model.accessors, primitive.attributes[a]).count
    IN IF primitive.indices >= 0
       THEN /\ draw.call = "glDrawElements"
            /\ draw.count = At(model.accessors, primitive.indices).count
            /\ draw.type = At(model.accessors, primitive.indices).componentType
       ELSE /\ draw.call = "glDrawArrays"
            /\ draw.count = Count(SmallestName(primitive.attributes))
            /\ (\A a, b \in DOMAIN primitive.attributes : Count(a) = Count(b))
                 => \A a \in DOMAIN primitive.attributes : draw.count = Count(a)

\* an indexed draw of 6 indices followed by a non-indexed draw of a
\* primitive whose two attributes differ in count
C9_Witness ==
  \E i \in 1..(Len(drawLog) - 1) :
    /\ drawLog[i].draw.call = "glDrawElements"
    /\ drawLog[i].draw.count = 6
    /\ drawLog[i + 1].draw.call = "glDrawArrays"
    /\ drawLog[i + 1].draw.count = 4
    /\ Cardinality(DOMAIN DrawnPrimitive(drawLog[i + 1]).attributes) = 2

\* the draws of a subtree, depth first: the node's primitives, then its
\* children in the order of the child list
RECURSIVE NodeDraws(_)
RECURSIVE ChildrenDraws(_, _)
NodeDraws(n) ==
  [p \in 1..NumPrimitives(n) |-> <<n, p - 1>>]
    \o ChildrenDraws(At(model.nodes, n).children, 1)

ChildrenDraws(nodes, i) ==
  IF i > Len(nodes) THEN <<>>
  ELSE NodeDraws(nodes[i]) \o ChildrenDraws(nodes, i + 1)

\* C10: a drawScene invocation ends having issued exactly one draw per
\* primitive of each reachable mesh-bearing node, depth first in pre-order,
\* each under the bindings of its primitive's material (the defaults for
\* no material); one root with one primitive of 3 vertices, no indices and
\* no material gives one glDrawArrays of 3 vertices under the defaults.
C10_OneDrawPerPrimitive ==
  pc \in {"drawn", "abortedDrawing"} =>
    /\ [i \in 1..Len(drawLog) |-> <<drawLog[i].node, drawLog[i].prIdx>>]
         = ChildrenDraws(Roots, 1)
    /\ \A i \in 1..Len(drawLog) :
         DrawnPrimitive(drawLog[i]).material = -1
           => DefaultBindings(drawLog[i].context)
    /\ (Len(model.nodes) = 1 /\ model.defaultScene >= 0
          /\ model.meshes = << <<Primitive(-1, -1, [POSITION |-> 0])>> >>)
         => /\ Len(drawLog) = 1
            /\ drawLog[1].draw.call = "glDrawArrays"
            /\ drawLog[1].draw.count = 3

(***************************************************************************)
(* Properties of the life of the device objects.                           *)
(***************************************************************************)
\* the names run() has created, by name space
CreatedHandles ==
  {<<"texture", i>> : i \in DOMAIN device.textures}
    \cup {<<"buffer", i>> : i \in DOMAIN device.buffers}
    \cup {<<"vao", i>> : i \in DOMAIN device.vaos}

\* how many times a name has been deleted
TimesDeleted(h) ==
  Cardinality({i \in DOMAIN device.deleted : device.deleted[i] = h})

\* a step inside a frame: from the start of drawScene to its return
InFrame == pc = "drawing" \/ pc' = "drawing"

\* C11: when run() returns, from the loop or from the render to a file,
\* every buffer, vertex array and texture it created, the white texture
\* included, has been released exactly once; and no step of a drawScene
\* call creates or releases one.
C11_HandlesReleasedOnce ==
  /\ [](pc = "returned" => \A h \in CreatedHandles : TimesDeleted(h) = 1)
  /\ [][InFrame => device' = device]_vars

(***************************************************************************)
(* Properties of the ends of run().                                        *)
(***************************************************************************)
\* loadGltfFile has returned false
LoadFailed == pc = "thrown"

\* an upload of a buffer or of a texture has failed
UploadFailed == device.error # "GL_NO_ERROR"

\* a drawScene call has started
DrawSceneCalled ==
  pc \in {"drawing", "abortedDrawing", "drawn", "flipped", "gui", "polled",
          "returned"}

\* C12: after a failed load, or a failed upload of a buffer or of a
\* texture, run() ends before any drawScene call: no draw is issued, the
\* loop is not entered and no file is written.
C12_FailureAbortsBeforeDraw ==
  (LoadFailed \/ UploadFailed) =>
    /\ ~DrawSceneCalled
    /\ drawLog = <<>>
    /\ frame = 0
    /\ image.files = 0

\* C13: with an output path set run() calls drawScene exactly once, then
\* flips the pixels, then writes the image file exactly once, then returns
\* 0; it never enters the loop: no panel frame, no event polling, no
\* camera update, no buffer swap.
C13_RenderToFileOnce ==
  m_OutputPath =>
    /\ drawSceneCalls <= 1
    /\ image.pixels # "none" => drawSceneCalls = 1 /\ pc # "drawing"
    /\ pc = "flipped" => image.pixels = "flipped" /\ image.files = 0
    /\ image.files <= 1
    /\ image.files = 1 => image.pixels = "flipped" /\ pc = "returned"
    /\ pc = "returned" =>
         drawSceneCalls = 1 /\ image.pixels = "flipped" /\ image.files = 1
    /\ frame = 0 /\ pc \notin {"gui", "polled"}
    /\ cameraType = 0 /\ ~shouldClose
    /\ light = [lightFromCamera |-> FALSE, applyOcclusion |-> TRUE,
                lightDirection |-> <<1, 1>>, lightIntensity |-> <<1, 1, 1>>]

\* a scene with draws has been rendered to the file and run() has returned
C13_Witness ==
  /\ m_OutputPath
  /\ pc = "returned"
  /\ image.files = 1
  /\ Len(drawLog) >= 2

(***************************************************************************)
(* Properties of the texture lookups of bindMaterial.                      *)
(***************************************************************************)
\* a texture reference that bindMaterial resolves to an entry of the table
Resolved(index) == index >= 0 /\ At(model.textures, index).source >= 0

\* the texture bound to a slot under a context is the one setup created for
\* texture index r
BoundForTexture(context, slot, r) ==
  /\ r < Len(textureObjects)
  /\ context.unit[slot + 1] = At(textureObjects, r)

\* C14: a texture reference r >= 0 of a material, to a texture with a
\* source >= 0, is bound as the entry r of the table of texture objects,
\* and no lookup reads the table out of its bounds, whatever the relation
\* between texture indices, image sources and the number of images.
C14_BindsTextureOfIndex ==
  /\ "textureObjects[texture.source]" \notin fault
  /\ \A i \in 1..Len(drawLog) :
       LET primitive == DrawnPrimitive(drawLog[i])
           context == drawLog[i].context
       IN primitive.material >= 0 =>
            LET material == At(model.materials, primitive.material)
            IN /\ (Declared("uBaseColorTexture")
                     /\ Resolved(material.baseColorTexture))
                    => BoundForTexture(context, 0, material.baseColorTexture)
               /\ (Declared("uEmissiveTexture")
                     /\ Resolved(material.emissiveTexture))
                    => BoundForTexture(context, 2, material.emissiveTexture)
               /\ (Declared("uOcclusionTexture")
                     /\ Resolved(material.occlusionTexture))
                    => BoundForTexture(context, 3, material.occlusionTexture)

====
